---------------------------- MODULE Spec2Model ----------------------------
(***************************************************************************)
(* A model of the GraphQL client of ardanlabs/graphql (src/graphql.go):    *)
(* construction with functional options (New, WithClient, WithLogging,     *)
(* WithHeader), the three execution entry points (Execute,                 *)
(* ExecuteOnEndpoint, RawRequest) and the request/response pipeline of     *)
(* RawRequest, with several calls in flight on one shared client.          *)
(*                                                                         *)
(* Strings that the code takes apart (URLs) are sequences of one-character *)
(* strings.  A request body is a sequence of tokens; the transport reads   *)
(* a prefix of it through the TeeReader.  A response body is the JSON      *)
(* document it holds (or an ill-formed one).                               *)
(***************************************************************************)
EXTENDS Naturals, Sequences, FiniteSets, TLC

VARIABLES
    gql,        \* the GraphQL value New returned: url, headers, client, logFunc
    newArgs,    \* the arguments New was called with (history)
    calls,      \* per call slot: the locals of Execute/query/RawRequest
    request,    \* the bytes.Buffer each call's TeeReader writes (line 141)
    wire,       \* the bytes the transport read from each call's body (environment)
    logged      \* the messages the log sink received, per calling slot

vars == <<gql, newArgs, calls, request, wire, logged>>

---------------------------------------------------------------------------
(* Bounds of the model *)

NumCalls == 2
MaxUrlLen == 3
MaxOptions == 2
MaxVariables == 2
MaxErrors == 2
MaxRawLen == 2

Procs == 1..NumCalls

SeqsUpTo(S, n) == UNION {[1..k -> S] : k \in 0..n}

Range(f) == {f[i] : i \in DOMAIN f}

IsPrefix(s, t) == Len(s) <= Len(t) /\ SubSeq(t, 1, Len(s)) = s

---------------------------------------------------------------------------
(* New and its options *)

Slash == "/"

RECURSIVE TrimRight(_)
\* strings.TrimRight(url, "/")
TrimRight(url) ==
    IF url # <<>> /\ url[Len(url)] = Slash
    THEN TrimRight(SubSeq(url, 1, Len(url) - 1))
    ELSE url

\* strings.TrimSuffix: one separator only
NormalizeURLOnce(url) ==
    (IF url # <<>> /\ url[Len(url)] = Slash
     THEN SubSeq(url, 1, Len(url) - 1) ELSE url) \o <<Slash>>

NormalizeURL(url) == TrimRight(url) \o <<Slash>>

NoHeaders == [k \in {} |-> ""]

MapSet(m, key, value) ==
    [k \in DOMAIN m \cup {key} |-> IF k = key THEN value ELSE m[k]]

WithClient(g, client) == [g EXCEPT !.client = client]

WithLogging(g, logFunc) == [g EXCEPT !.logFunc = logFunc]

WithHeader(g, key, value) ==
    IF key # "" THEN [g EXCEPT !.headers = MapSet(g.headers, key, value)] ELSE g

ApplyOption(g, option) ==
    CASE option.op = "WithClient"  -> WithClient(g, option.value)
      [] option.op = "WithLogging" -> WithLogging(g, option.value)
      [] option.op = "WithHeader"  -> WithHeader(g, option.key, option.value)

RECURSIVE ApplyOptions(_, _)
ApplyOptions(g, options) ==
    IF options = <<>> THEN g
    ELSE ApplyOptions(ApplyOption(g, Head(options)), Tail(options))

New(url, options) ==
    ApplyOptions([url     |-> NormalizeURL(url),
                  headers |-> NoHeaders,
                  client  |-> "defaultClient",
                  logFunc |-> "nil"],
                 options)

---------------------------------------------------------------------------
(* Variables and the envelope *)

NilMap == [nil |-> TRUE, m |-> NoHeaders]

MakeMap == [nil |-> FALSE, m |-> NoHeaders]

WithVariable(qv, key, value) == [qv EXCEPT !.m = MapSet(qv.m, key, value)]

RECURSIVE ApplyVariables(_, _)
ApplyVariables(qv, variables) ==
    IF variables = <<>> THEN qv
    ELSE ApplyVariables(WithVariable(qv, Head(variables).key, Head(variables).value),
                        Tail(variables))

\* a bug: an earlier binding of a key is kept
QueryVarsFirstWins(variables) ==
    IF Len(variables) > 0
    THEN ApplyVariables(MakeMap, [i \in 1..Len(variables) |->
                                     variables[Len(variables) + 1 - i]])
    ELSE NilMap

\* lines 92-98 and 105-111
QueryVars(variables) ==
    IF Len(variables) > 0 THEN ApplyVariables(MakeMap, variables) ELSE NilMap

\* encoding/json writes the keys of a map in sorted order
KeyOrder == <<"key1", "key2">>

VarKeys == Range(KeyOrder)

Unencodable == "chan"

RECURSIVE Flatten(_)
Flatten(pairs) ==
    IF pairs = <<>> THEN <<>> ELSE Head(pairs) \o Flatten(Tail(pairs))

EncodeVariables(qv) ==
    IF qv.nil THEN <<"null">>
    ELSE LET ks == SelectSeq(KeyOrder, LAMBDA k : k \in DOMAIN qv.m)
         IN  <<"{">> \o Flatten([i \in 1..Len(ks) |-> <<ks[i], qv.m[ks[i]]>>])
                    \o <<"}">>

\* json.NewEncoder(&b).Encode(request): the object, then a newline
Encode(req) ==
    IF ~req.Variables.nil /\ Unencodable \in Range(req.Variables.m)
    THEN [ok |-> FALSE, bytes |-> <<>>]
    ELSE [ok |-> TRUE,
          bytes |-> <<"{", "query", req.Query, "variables">>
                    \o EncodeVariables(req.Variables) \o <<"}", "\n">>]

---------------------------------------------------------------------------
(* The request *)

\* Execute's endpoint, "graphql"
DefaultEndpoint == <<"g", "r", "a", "p", "h", "q", "l">>

\* url.Parse inside http.NewRequestWithContext: a '%' that starts no escape
ParseURL(target) == "%" \notin Range(target)

\* textproto.CanonicalMIMEHeaderKey, applied by req.Header.Set
CanonicalKey(key) ==
    CASE key = "x-a"           -> "X-A"
      [] key = "accept"        -> "Accept"
      [] OTHER                 -> key

HeaderSet(header, key, value) == MapSet(header, CanonicalKey(key), value)

\* lines 149-151
FixedHeaders ==
    HeaderSet(HeaderSet(HeaderSet(NoHeaders, "Cache-Control", "no-cache"),
                        "Content-Type", "application/json"),
              "Accept", "application/json")

Perms(S) ==
    {f \in [1..Cardinality(S) -> S] : \A i, j \in DOMAIN f : f[i] = f[j] => i = j}

RECURSIVE Overlay(_, _, _)
\* lines 152-154, with the keys of g.headers ranged over in the order `order`
Overlay(header, headers, order) ==
    IF order = <<>> THEN header
    ELSE Overlay(HeaderSet(header, Head(order), headers[Head(order)]),
                 headers, Tail(order))

\* the header sets the loop of lines 152-154 can leave: Go ranges over a map
\* in an unspecified order
RequestHeaders(g) ==
    {Overlay(FixedHeaders, g.headers, order) : order \in Perms(DOMAIN g.headers)}

---------------------------------------------------------------------------
(* The response *)

StatusText(code) ==
    CASE code = 200 -> "200 OK"
      [] code = 204 -> "204 No Content"
      [] code = 500 -> "500 Internal Server Error"

StatusOK == 200

Fields == {"f1", "f2"}

\* the zero value of the caller's destination struct
ZeroResponse == [f \in Fields |-> ""]

NoData == [kind |-> "absent", fields |-> [f \in Fields |-> "absent"]]

NoErrors == [present |-> FALSE, list |-> <<>>]

\* no bytes at all: not a JSON document
EmptyBody == [valid |-> FALSE, data |-> NoData, errors |-> NoErrors]

NoResponse == [StatusCode |-> 0, Status |-> "", Body |-> EmptyBody]

NoRequest == [Method |-> "", URL |-> <<>>, Header |-> NoHeaders]

Err(kind, status, snapshot, messages, data) ==
    [kind |-> kind, status |-> status, request |-> snapshot,
     messages |-> messages, data |-> data]

NoError == Err("nil", "", <<>>, <<>>, EmptyBody)

EncodingError == Err("graphql encoding error", "", <<>>, <<>>, EmptyBody)

CreateError == Err("graphql create request error", "", <<>>, <<>>, EmptyBody)

RequestError == Err("graphql request error", "", <<>>, <<>>, EmptyBody)

CopyError == Err("graphql copy error", "", <<>>, <<>>, EmptyBody)

\* line 168
StatusError(resp) ==
    Err("graphql op error: status code", resp.Status, <<>>, <<>>, EmptyBody)

\* line 184
DecodingError(data) == Err("graphql decoding error", "", <<>>, <<>>, data)

\* a bug: the last error of the response is reported
OpErrorLast(snapshot, Errors) ==
    Err("graphql op error", "", snapshot, <<Errors[Len(Errors)]>>, EmptyBody)

\* line 188
OpError(snapshot, Errors) ==
    Err("graphql op error", "", snapshot, <<Errors[1]>>, EmptyBody)

\* line 172
LogMessage(snapshot, data) == [request |-> snapshot, data |-> data]

\* json.Unmarshal(data, &result) with result.Data holding the caller's pointer:
\* an ill-formed document is refused before anything is stored; in a
\* well-formed one every field of "data" that fits is stored, one that does
\* not fit is skipped and reported after the rest was decoded; "data": null
\* and an absent "data" store nothing
Unmarshal(data, response) ==
    IF ~data.valid
    THEN [err |-> TRUE, response |-> response, Errors |-> <<>>]
    ELSE LET d == data.data
             stored(f) == d.kind = "object" /\ d.fields[f] \notin {"absent", "mismatch"}
         IN  [err      |-> d.kind = "object" /\ "mismatch" \in Range(d.fields),
              response |-> [f \in Fields |->
                               IF stored(f) THEN d.fields[f] ELSE response[f]],
              Errors   |-> IF data.errors.present THEN data.errors.list ELSE <<>>]

---------------------------------------------------------------------------
(* One call *)

IdleCall ==
    [pc          |-> "idle",
     entry       |-> "",
     endpoint    |-> <<>>,
     queryString |-> "",
     variables   |-> <<>>,
     body        |-> <<>>,          \* what the reader given to RawRequest holds
     r           |-> <<>>,          \* what is left to read of it
     req         |-> NoRequest,
     resp        |-> NoResponse,
     deferred    |-> FALSE,         \* resp.Body.Close is deferred (line 160)
     readOK      |-> FALSE,         \* ioutil.ReadAll read the body to its end
     data        |-> EmptyBody,
     response    |-> ZeroResponse,  \* the caller's destination
     response0   |-> ZeroResponse,  \* as it was when the call was made
     err         |-> NoError,
     outcome     |-> "",            \* what the transport answered: "error", "response"
     trace       |-> <<>>]          \* what the call did, in order

Did(c, what) == c.trace \o <<what>>

Count(c, what) == Cardinality({i \in DOMAIN c.trace : c.trace[i] = what})

\* a bug: the body is closed on the success path only
ReturnNoDefer(c, err) ==
    [c EXCEPT !.pc = "done", !.err = err,
              !.trace = IF c.deferred /\ err = NoError THEN Did(c, "close") ELSE @]

\* a return statement: the deferred resp.Body.Close() runs
Return(c, err) ==
    [c EXCEPT !.pc = "done", !.err = err,
              !.trace = IF c.deferred THEN Did(c, "close") ELSE @]

\* lines 141-154
RawRequestBegin(c, g, endpoint, r, response, header) ==
    LET c1 == [c EXCEPT !.endpoint = endpoint, !.body = r, !.r = r,
                        !.response = response, !.response0 = response,
                        !.trace = Did(c, "tee")]
        target == g.url \o endpoint
    IN  IF ~ParseURL(target)
        THEN Return(c1, CreateError)
        ELSE [c1 EXCEPT !.req = [Method |-> "POST", URL |-> target,
                                 Header |-> header],
                        !.pc = "do"]

\* lines 116-131
query(c, g, endpoint, queryString, queryVars, response, header) ==
    LET enc == Encode([Query |-> queryString, Variables |-> queryVars])
        c1  == [c EXCEPT !.endpoint = endpoint, !.response = response,
                         !.response0 = response]
    IN  IF ~enc.ok
        THEN Return(c1, EncodingError)
        ELSE RawRequestBegin(c1, g, endpoint, enc.bytes, response, header)

\* a bug: a failed round trip is tried once more
DoResultRetry(c, outcome) ==
    IF outcome.err
    THEN IF Count(c, "do") < 2 THEN c ELSE Return(c, RequestError)
    ELSE [c EXCEPT !.resp = outcome.resp, !.deferred = TRUE, !.pc = "read"]

\* lines 156-160
DoResult(c, outcome) ==
    IF outcome.err
    THEN Return(c, RequestError)
    ELSE [c EXCEPT !.resp = outcome.resp, !.deferred = TRUE, !.pc = "read"]

\* a bug: the body is decoded before the status is looked at
ProcessResponseDecodeFirst(g, c, snapshot) ==
    LET u  == Unmarshal(c.data, c.response)
        c1 == [c EXCEPT !.response = u.response, !.trace = Did(c, "unmarshal")]
    IN  IF c.resp.StatusCode # StatusOK
        THEN [call |-> Return(c1, StatusError(c.resp)), emit |-> <<>>]
        ELSE IF u.err
        THEN [call |-> Return(c1, DecodingError(c.data)), emit |-> <<>>]
        ELSE [call |-> Return(c1, NoError), emit |-> <<>>]

\* a bug: the status is compared with the 2xx range
StatusCheckLoose(resp) == resp.StatusCode \in 200..299

\* line 167
StatusCheck(resp) == resp.StatusCode = StatusOK

\* a bug: the sink is given the whole body of the request, not what was sent
LogRequestWhole(c, snapshot) == c.body

\* line 172: request.String()
LogRequest(c, snapshot) == snapshot

\* lines 167-191
ProcessResponse(g, c, snapshot) ==
    IF ~StatusCheck(c.resp)
    THEN [call |-> Return(c, StatusError(c.resp)), emit |-> <<>>]
    ELSE LET logs == g.logFunc # "nil"
             emit == IF logs THEN <<LogMessage(LogRequest(c, snapshot), c.data)>>
                     ELSE <<>>
             c1 == IF logs THEN [c EXCEPT !.trace = Did(c, "log")] ELSE c
             u  == Unmarshal(c.data, c1.response)
             c2 == [c1 EXCEPT !.response = u.response,
                              !.trace = Did(c1, "unmarshal")]
             c3 == [c2 EXCEPT !.trace = Did(c2, "errors")]
         IN  IF u.err
             THEN [call |-> Return(c2, DecodingError(c.data)), emit |-> emit]
             ELSE IF Len(u.Errors) > 0
             THEN [call |-> Return(c3, OpError(snapshot, u.Errors)), emit |-> emit]
             ELSE [call |-> Return(c3, NoError), emit |-> emit]

---------------------------------------------------------------------------
(* The operations.  A caller makes one call after the other; calls of       *)
(* different callers are in flight together.                                 *)

\* a bug: one buffer, shared by all the calls
RequestBufferShared(p) == 1

\* line 141: the buffer is a local of the call
RequestBuffer(p) == p

Enter(p, c) ==
    /\ calls' = [calls EXCEPT ![p] = c]
    /\ request' = IF "tee" \in Range(c.trace)
                  THEN [request EXCEPT ![RequestBuffer(p)] = <<>>]
                  ELSE request
    /\ wire' = [wire EXCEPT ![p] = <<>>]
    /\ logged' = [logged EXCEPT ![p] = <<>>]
    /\ UNCHANGED <<gql, newArgs>>

Execute(p, queryString, response, variables) ==
    /\ calls[p].pc = "idle"
    /\ \E header \in RequestHeaders(gql) :
          Enter(p, query([IdleCall EXCEPT !.entry = "Execute",
                                          !.queryString = queryString,
                                          !.variables = variables],
                         gql, DefaultEndpoint, queryString,
                         QueryVars(variables), response, header))

ExecuteOnEndpoint(p, endpoint, queryString, response, variables) ==
    /\ calls[p].pc = "idle"
    /\ \E header \in RequestHeaders(gql) :
          Enter(p, query([IdleCall EXCEPT !.entry = "ExecuteOnEndpoint",
                                          !.queryString = queryString,
                                          !.variables = variables],
                         gql, endpoint, queryString,
                         QueryVars(variables), response, header))

RawRequest(p, endpoint, r, response) ==
    /\ calls[p].pc = "idle"
    /\ \E header \in RequestHeaders(gql) :
          Enter(p, RawRequestBegin([IdleCall EXCEPT !.entry = "RawRequest"],
                                   gql, endpoint, r, response, header))

\* line 156: g.client.Do(req).  The transport reads n bytes of the body
\* through the TeeReader, then answers with an error or a response.
Do(p, outcome, n) ==
    /\ calls[p].pc = "do"
    /\ n <= Len(calls[p].r)
    /\ LET c    == calls[p]
           read == SubSeq(c.r, 1, n)
       IN  /\ request' = [request EXCEPT ![RequestBuffer(p)] = @ \o read]
           /\ wire' = [wire EXCEPT ![p] = @ \o read]
           /\ calls' = [calls EXCEPT ![p] =
                  DoResult([c EXCEPT !.r = SubSeq(c.r, n + 1, Len(c.r)),
                                     !.outcome = IF outcome.err THEN "error"
                                                 ELSE "response",
                                     !.trace = Did(c, "do")],
                           outcome)]
    /\ UNCHANGED <<gql, newArgs, logged>>

\* lines 162-192: ioutil.ReadAll, then the rest of RawRequest
ReadAll(p, ok) ==
    /\ calls[p].pc = "read"
    /\ LET c == [calls[p] EXCEPT !.readOK = ok, !.trace = Did(calls[p], "readall")]
           res == IF ~ok
                  THEN [call |-> Return(c, CopyError), emit |-> <<>>]
                  ELSE ProcessResponse(gql, [c EXCEPT !.data = c.resp.Body],
                                       request[RequestBuffer(p)])
       IN  /\ calls' = [calls EXCEPT ![p] = res.call]
           /\ logged' = [logged EXCEPT ![p] = @ \o res.emit]
    /\ UNCHANGED <<gql, newArgs, request, wire>>

\* the caller has the result of its call and is free to make another; the
\* locals of the call that returned are gone
Again(p) ==
    /\ calls[p].pc = "done"
    /\ calls' = [calls EXCEPT ![p] = IdleCall]
    /\ request' = [request EXCEPT ![RequestBuffer(p)] = <<>>]
    /\ wire' = [wire EXCEPT ![p] = <<>>]
    /\ logged' = [logged EXCEPT ![p] = <<>>]
    /\ UNCHANGED <<gql, newArgs>>

---------------------------------------------------------------------------
(* Inputs *)

HeaderKeys == {"", "x-a", "X-A", "Accept"}

HeaderValues == {"v1", "v2"}

Option(op, key, value) == [op |-> op, key |-> key, value |-> value]

Options ==
    {Option("WithHeader", k, v) : k \in HeaderKeys, v \in HeaderValues}
    \cup {Option("WithClient", "", "custom"), Option("WithLogging", "", "sink")}

UrlChars == {"h", Slash, "%"}

VarValues == {"10", "hello", Unencodable}

Variable(key, value) == [key |-> key, value |-> value]

Variables == {Variable(k, v) : k \in VarKeys, v \in VarValues}

Messages == {"boom", "bang"}

DataDocs ==
    {NoData, [kind |-> "null", fields |-> NoData.fields]}
    \cup {[kind |-> "object", fields |-> fs] :
             fs \in [Fields -> {"absent", "a", "mismatch"}]}

ErrorsDocs ==
    {NoErrors} \cup {[present |-> TRUE, list |-> l] : l \in SeqsUpTo(Messages, MaxErrors)}

Bodies ==
    {EmptyBody}
    \cup {[valid |-> TRUE, data |-> d, errors |-> e] : d \in DataDocs, e \in ErrorsDocs}

\* a well-formed answer whose "data" gives every field the value v
Document(v, errors) ==
    [valid |-> TRUE,
     data |-> [kind |-> "object", fields |-> [f \in Fields |-> v]],
     errors |-> errors]

Response(code, body) == [StatusCode |-> code, Status |-> StatusText(code), Body |-> body]

TransportError == [err |-> TRUE, resp |-> NoResponse]

Outcomes(codes, bodies) ==
    {TransportError}
    \cup {[err |-> FALSE, resp |-> Response(code, b)] : code \in codes, b \in bodies}

Populated == [f \in Fields |-> "b"]

\* one call at a time, every kind of response
Sequential ==
    [procs     |-> {1},
     queries   |-> {"q1"},
     responses |-> {ZeroResponse, Populated},
     variables |-> {<<>>, <<Variable("key1", "10")>>, <<Variable("key1", Unencodable)>>},
     endpoints |-> {<<"a">>, <<"%">>},
     raws      |-> SeqsUpTo({"x"}, MaxRawLen),
     outcomes  |-> Outcomes({200, 204, 500}, Bodies),
     reads     |-> {0, 3}]

\* calls in flight together, with queries and answers that tell them apart
Concurrent ==
    [procs     |-> Procs,
     queries   |-> {"q1", "q2"},
     responses |-> {ZeroResponse},
     variables |-> {<<>>},
     endpoints |-> {<<"a">>},
     raws      |-> {<<"x">>},
     outcomes  |-> Outcomes({200}, {Document("a", NoErrors),
                                    Document("c", [present |-> TRUE,
                                                   list |-> <<"boom">>])}),
     reads     |-> {}]

\* one call at a time, every sequence of variable mutators
Binding ==
    [procs     |-> {1},
     queries   |-> {"q1", "q2"},
     responses |-> {ZeroResponse},
     variables |-> SeqsUpTo(Variables, MaxVariables),
     endpoints |-> {<<"a">>},
     raws      |-> {<<"x">>},
     outcomes  |-> Outcomes({200}, {[valid |-> TRUE, data |-> NoData, errors |-> NoErrors]}),
     reads     |-> {}]

\* one call at a time, to see the request a client builds
Building ==
    [procs     |-> {1},
     queries   |-> {"q1"},
     responses |-> {ZeroResponse},
     variables |-> {<<>>},
     endpoints |-> {<<"a">>, <<"a", Slash, "b">>},
     raws      |-> {<<"x">>},
     outcomes  |-> Outcomes({200}, {[valid |-> TRUE, data |-> NoData, errors |-> NoErrors]}),
     reads     |-> {}]

InitOver(urls, optionSeqs) ==
    /\ \E url \in urls, options \in optionSeqs :
          /\ gql = New(url, options)
          /\ newArgs = [url |-> url, options |-> options]
    /\ calls = [p \in Procs |-> IdleCall]
    /\ request = [p \in Procs |-> <<>>]
    /\ wire = [p \in Procs |-> <<>>]
    /\ logged = [p \in Procs |-> <<>>]

NextOver(in) ==
    \E p \in in.procs :
       \/ \E q \in in.queries, d \in in.responses, vs \in in.variables :
             Execute(p, q, d, vs)
       \/ \E e \in in.endpoints, q \in in.queries, d \in in.responses,
             vs \in in.variables :
             ExecuteOnEndpoint(p, e, q, d, vs)
       \/ \E e \in in.endpoints, r \in in.raws, d \in in.responses :
             RawRequest(p, e, r, d)
       \/ \E o \in in.outcomes, n \in in.reads \cup {Len(calls[p].r)} :
             Do(p, o, n)
       \/ \E ok \in BOOLEAN :
             ReadAll(p, ok)
       \/ Again(p)

\* a client with or without a log sink and a transport of the caller's
Init ==
    InitOver({<<"h">>},
             {<<>>,
              <<Option("WithLogging", "", "sink")>>,
              <<Option("WithClient", "", "custom"), Option("WithLogging", "", "sink")>>})

\* every base URL
InitURL ==
    InitOver(SeqsUpTo(UrlChars, MaxUrlLen),
             {<<>>, <<Option("WithLogging", "", "sink")>>})

\* every sequence of options
InitOptions == InitOver({<<"h">>}, SeqsUpTo(Options, MaxOptions))

Next == NextOver(Sequential)

NextConc == NextOver(Concurrent)

NextVars == NextOver(Binding)

NextNew == NextOver(Building)

Spec == Init /\ [][Next]_vars

SpecConc == Init /\ [][NextConc]_vars

SpecVars == Init /\ [][NextVars]_vars

SpecURL == InitURL /\ [][NextNew]_vars

SpecOptions == InitOptions /\ [][NextNew]_vars

---------------------------------------------------------------------------
(* Properties *)

Done(c) == c.pc = "done"

Answered(c) == Done(c) /\ c.outcome = "response"

StatusErrorKind == "graphql op error: status code"

OpErrorKind == "graphql op error"

\* C1, as the claim states it: every call in which the transport returned a
\* response whose status is not 200 returns the error naming the status,
\* inspects no errors array and decodes nothing into the destination.
C1_Original ==
    \A p \in Procs :
       LET c == calls[p]
       IN  (Answered(c) /\ c.resp.StatusCode # 200) =>
              /\ c.err.kind = StatusErrorKind
              /\ c.err.status = c.resp.Status
              /\ "unmarshal" \notin Range(c.trace)
              /\ "errors" \notin Range(c.trace)
              /\ c.response = c.response0

\* C1, amended: every call in which the transport returned a response whose
\* status is not 200 inspects no errors array and decodes nothing into the
\* destination; it returns the error naming the status text when the body
\* was read to its end, and the body-read error when reading it failed.
C1_StatusFailure ==
    \A p \in Procs :
       LET c == calls[p]
       IN  (Answered(c) /\ c.resp.StatusCode # 200) =>
              /\ "unmarshal" \notin Range(c.trace)
              /\ "errors" \notin Range(c.trace)
              /\ c.response = c.response0
              /\ c.readOK => /\ c.err.kind = StatusErrorKind
                             /\ c.err.status = StatusText(c.resp.StatusCode)
              /\ ~c.readOK => c.err = CopyError

C1_Witness ==
    \E p \in Procs :
       LET c == calls[p]
       IN  /\ Answered(c) /\ c.readOK /\ c.resp.StatusCode = 500
           /\ c.resp.Body.valid
           /\ c.resp.Body.data.kind = "object"
           /\ c.resp.Body.data.fields["f1"] = "a"
           /\ c.resp.Body.errors.list # <<>>
           /\ c.err.kind = StatusErrorKind

\* C2: with a log sink configured, a call that gets a 200 response and reads
\* its body hands the sink exactly one message, made of the bytes the
\* transport read of the request and of the bytes of the response body, also
\* when the call then fails to decode or reports a GraphQL error; any other
\* call hands it none.
C2_LogOnce ==
    \A p \in Procs :
       LET c == calls[p]
       IN  gql.logFunc # "nil" =>
              /\ Count(c, "log") = Len(logged[p])
              /\ logged[p] =
                    IF Answered(c) /\ c.readOK /\ c.resp.StatusCode = 200
                    THEN <<[request |-> wire[p], data |-> c.resp.Body]>>
                    ELSE <<>>

C2_Witness ==
    \E p \in Procs :
       LET c == calls[p]
       IN  /\ gql.logFunc # "nil"
           /\ Done(c) /\ c.err.kind = OpErrorKind
           /\ Len(logged[p]) = 1
           /\ wire[p] # <<>>
           /\ wire[p] # c.body

Decodes(body) ==
    /\ body.valid
    /\ ~(body.data.kind = "object" /\ "mismatch" \in Range(body.data.fields))

\* C3: a call whose 200 response decodes returns, when the errors of the
\* response are not empty, an error holding the request snapshot and the
\* message of the first of them and of no other, and returns no error when
\* the errors are empty or absent.
C3_FirstError ==
    \A p \in Procs :
       LET c == calls[p]
           b == c.resp.Body
       IN  (Answered(c) /\ c.readOK /\ c.resp.StatusCode = 200 /\ Decodes(b)) =>
              IF b.errors.present /\ b.errors.list # <<>>
              THEN /\ c.err.kind = OpErrorKind
                   /\ c.err.request = wire[p]
                   /\ c.err.messages = <<b.errors.list[1]>>
              ELSE c.err = NoError

C3_Witness ==
    \E p \in Procs :
       LET c == calls[p]
           l == c.resp.Body.errors.list
       IN  /\ Done(c) /\ c.err.kind = OpErrorKind
           /\ Len(l) = 2 /\ l[1] # l[2]

\* the tokens of the "variables" member of a serialized envelope
VariablesField(bytes) == SubSeq(bytes, 5, Len(bytes) - 2)

Pairs(field) ==
    {<<field[2 * i], field[2 * i + 1]>> : i \in 1..((Len(field) - 2) \div 2)}

LastWins(variables) ==
    {<<variables[i].key, variables[i].value>> :
        i \in {i \in DOMAIN variables :
                 \A j \in DOMAIN variables : j > i => variables[j].key # variables[i].key}}

\* C4: the envelope Execute and ExecuteOnEndpoint send holds the query and,
\* as "variables", null when no mutator was given, and otherwise the object
\* with one member for each key some mutator binds, whose value is the one
\* the last mutator of that key gives.
C4_Variables ==
    \A p \in Procs :
       LET c == calls[p]
           field == VariablesField(wire[p])
       IN  (c.entry \in {"Execute", "ExecuteOnEndpoint"} /\ "do" \in Range(c.trace)) =>
              /\ SubSeq(wire[p], 1, 4) = <<"{", "query", c.queryString, "variables">>
              /\ IF c.variables = <<>>
                 THEN field = <<"null">>
                 ELSE /\ field[1] = "{" /\ field[Len(field)] = "}"
                      /\ Pairs(field) = LastWins(c.variables)
                      /\ Cardinality(Pairs(field)) * 2 = Len(field) - 2

C4_Witness ==
    \E p \in Procs :
       LET c == calls[p]
       IN  /\ "do" \in Range(c.trace)
           /\ Len(c.variables) = 2
           /\ c.variables[1].key = c.variables[2].key
           /\ c.variables[1].value # c.variables[2].value

\* what is left of a URL without the separators it ends with
Stem(url) ==
    CHOOSE s \in {SubSeq(url, 1, k) : k \in 0..Len(url)} :
       /\ s = <<>> \/ s[Len(s)] # Slash
       /\ \A i \in (Len(s) + 1)..Len(url) : url[i] = Slash

\* C5: the base URL a client holds is the URL given to New without its
\* trailing separators, followed by one separator; normalizing it again
\* changes nothing; every request goes to that base followed by the
\* endpoint, so that the number of trailing separators of the URL given to
\* New does not show in the target.
C5_BaseURL ==
    LET base == Stem(newArgs.url) \o <<Slash>>
    IN  /\ gql.url = base
        /\ gql.url[Len(gql.url)] = Slash
        /\ Len(gql.url) > 1 => gql.url[Len(gql.url) - 1] # Slash
        /\ NormalizeURL(gql.url) = gql.url
        /\ \A p \in Procs :
              calls[p].req # NoRequest => calls[p].req.URL = base \o calls[p].endpoint

C5_Witness ==
    /\ Len(newArgs.url) = 3
    /\ newArgs.url[2] = Slash /\ newArgs.url[3] = Slash
    /\ newArgs.url[1] = "h"
    /\ \E p \in Procs : calls[p].req # NoRequest

\* http.Header.Get
HeaderGet(header, key) ==
    IF CanonicalKey(key) \in DOMAIN header THEN header[CanonicalKey(key)] ELSE ""

\* C6, as the claim states it: every request carries, for each header
\* configured with a non-empty key, the last value configured for that key;
\* an empty key adds nothing to the client's headers nor to a request.
C6_Original ==
    /\ "" \notin DOMAIN gql.headers
    /\ \A p \in Procs :
          LET c  == calls[p]
              os == newArgs.options
          IN  c.req # NoRequest =>
                 /\ "" \notin DOMAIN c.req.Header
                 /\ \A i \in DOMAIN os :
                       (/\ os[i].op = "WithHeader"
                        /\ os[i].key # ""
                        /\ \A j \in DOMAIN os :
                              j > i => ~(os[j].op = "WithHeader" /\ os[j].key = os[i].key))
                       => HeaderGet(c.req.Header, os[i].key) = os[i].value

EarlyErrors ==
    {EncodingError.kind, CreateError.kind, RequestError.kind, CopyError.kind,
     StatusErrorKind}

\* C7, as the claim states it: a call that returns an error leaves the
\* destination as it was.
C7_Original ==
    \A p \in Procs :
       LET c == calls[p]
       IN  (Done(c) /\ c.err # NoError) => c.response = c.response0

\* C7, amended: a call that returns an encoding, request-construction,
\* transport, body-read or non-200 status error leaves the destination as it
\* was, and so does a call that has not returned yet; the destination is
\* written by the decoding of a 200 response only, which also a call that
\* then returns a decoding or a GraphQL error has done.
C7_Frame ==
    \A p \in Procs :
       LET c == calls[p]
       IN  /\ (~Done(c) \/ c.err.kind \in EarlyErrors) => c.response = c.response0
           /\ c.response # c.response0 =>
                 /\ "unmarshal" \in Range(c.trace)
                 /\ c.resp.StatusCode = 200

C7_Witness ==
    \E p \in Procs :
       LET c == calls[p]
       IN  /\ Done(c) /\ c.err.kind = StatusErrorKind
           /\ c.resp.Body.valid
           /\ c.resp.Body.data.kind = "object"
           /\ c.resp.Body.data.fields["f1"] = "a"
           /\ c.response0 = ZeroResponse

\* C8: with calls in flight together on one client, the buffer of a call
\* holds the bytes the transport read of that call's request and nothing
\* else, the snapshot in its error and in its log message is that buffer,
\* its destination is as it was or as decoding its own response leaves it,
\* and the client is as New returned it.
C8_Isolation ==
    /\ gql = New(newArgs.url, newArgs.options)
    /\ \A p \in Procs :
          LET c == calls[p]
          IN  /\ "tee" \in Range(c.trace) =>
                    /\ request[p] = wire[p]
                    /\ IsPrefix(wire[p], c.body)
              /\ c.err.kind = OpErrorKind => c.err.request = wire[p]
              /\ \A i \in DOMAIN logged[p] :
                    logged[p][i] = [request |-> wire[p], data |-> c.resp.Body]
              /\ c.response \in {c.response0,
                                 Unmarshal(c.resp.Body, c.response0).response}

C8_Witness ==
    \E p, q \in Procs :
       /\ p # q
       /\ calls[p].pc = "read" /\ Done(calls[q])
       /\ wire[p] # <<>> /\ wire[q] # <<>> /\ wire[p] # wire[q]
       /\ calls[q].err.kind = OpErrorKind
       /\ calls[q].response # calls[q].response0
       /\ calls[p].resp.Body # calls[q].resp.Body

\* C9: a call in which the transport returned a response has closed the
\* body exactly once when it returns, whatever it returns; a call that got
\* no response closes nothing, and nothing is closed before the return.
C9_Close ==
    \A p \in Procs :
       LET c == calls[p]
       IN  Count(c, "close") = IF Answered(c) THEN 1 ELSE 0

C9_Witness ==
    \E p \in Procs :
       LET c == calls[p]
       IN  Answered(c) /\ c.err = CopyError /\ Count(c, "close") = 1

\* C10, as the claim states it: no call returns without having invoked the
\* transport exactly once.
C10_Original ==
    \A p \in Procs :
       LET c == calls[p]
       IN  Done(c) => Count(c, "do") = 1

\* C10, amended: no call invokes the transport twice; a call that returns an
\* encoding or a request-construction error has not invoked it, and every
\* other call that returns has invoked it exactly once.
C10_RoundTrip ==
    \A p \in Procs :
       LET c == calls[p]
       IN  /\ Count(c, "do") <= 1
           /\ Done(c) =>
                 Count(c, "do") =
                    IF c.err.kind \in {EncodingError.kind, CreateError.kind}
                    THEN 0 ELSE 1

C10_Witness ==
    \E p \in Procs :
       LET c == calls[p]
       IN  Done(c) /\ c.err = RequestError /\ Count(c, "do") = 1

=============================================================================
